---- MODULE Spec2Model ----
(***************************************************************************)
(* A model of ddice: the Dimension / Variable layer (variable.py) and the  *)
(* Field layer (field.py: map, subset, groupby, apply).                    *)
(*                                                                         *)
(* Python objects live in two heaps (dimObjs, varObjs); an object's id is  *)
(* its position in the heap.  `op` records the last call: its name, its    *)
(* arguments, what it returned and the exception it raised ("none" when it *)
(* returned normally).                                                     *)
(***************************************************************************)
EXTENDS Integers, Sequences, FiniteSets, TLC

VARIABLES dimObjs, varObjs, field, gb, geomCache, op

vars == <<dimObjs, varObjs, field, gb, geomCache, op>>

(***************************************************************************)
(* Bounds of the model.                                                    *)
(***************************************************************************)
MaxSize == 2
MaxUserDims == 1
MaxVarObjs == 1
MaxRank == 2

DimNames == {"x", "y"}

(***************************************************************************)
(* Small helpers on sequences.                                             *)
(***************************************************************************)
Range(s) == {s[i] : i \in DOMAIN s}

Min2(a, b) == IF a < b THEN a ELSE b

Max2(a, b) == IF a > b THEN a ELSE b

SeqsUpTo(S, n) == UNION {[1..k -> S] : k \in 0..n}

NoOp == [name |-> "init"]

NoField == [shape |-> <<>>, name |-> "", coords |-> <<>>]

(***************************************************************************)
(* Python values handed to Dimension: an int, or a float given in halves   *)
(* (v = 3 is 1.5).  `fixed` arguments are the literals True, False, or a   *)
(* value that is no bool.                                                  *)
(***************************************************************************)
IntVal(n) == [t |-> "int", v |-> n]

FloatVal(h) == [t |-> "float", v |-> h]

SizeValues == {IntVal(n) : n \in -1..MaxSize} \cup {FloatVal(h) : h \in {-1, 2, 3}}

FixedValues == {"True", "False", "notbool"}

IsBool(f) == f \in {"True", "False"}

(***************************************************************************)
(* Dimension.__init__: name and size are stored unchecked; fixed must be a *)
(* bool, else TypeError.                                                   *)
(***************************************************************************)
DimensionNew(name, size, fixed) ==
    IF IsBool(fixed)
    THEN [err |-> "none", dim |-> [name |-> name, size |-> size, fixed |-> (fixed = "True")]]
    ELSE [err |-> "TypeError", dim |-> [name |-> name, size |-> size, fixed |-> FALSE]]

DimensionInit ==
    /\ Len(dimObjs) < MaxUserDims
    /\ \E name \in DimNames, size \in -1..MaxSize, fixed \in FixedValues :
         LET r == DimensionNew(name, size, fixed) IN
         /\ dimObjs' = IF r.err = "none" THEN Append(dimObjs, r.dim) ELSE dimObjs
         /\ op' = [name |-> "DimensionInit", size |-> size, fixed |-> fixed, err |-> r.err]
    /\ UNCHANGED <<varObjs, field, gb, geomCache>>

(***************************************************************************)
(* Dimension.size setter: ValueError on a fixed Dimension; else the value  *)
(* is stored when `size >= 0 and type(size) == int`, TypeError otherwise.  *)
(***************************************************************************)
\* The setter with `size > 0` for `size >= 0`.
SizeSetterPositive(d, val) ==
    IF d.fixed
    THEN [err |-> "ValueError", dim |-> d]
    ELSE IF val.v > 0 /\ val.t = "int"
         THEN [err |-> "none", dim |-> [d EXCEPT !.size = val.v]]
         ELSE [err |-> "TypeError", dim |-> d]

SizeSetter(d, val) ==
    IF d.fixed
    THEN [err |-> "ValueError", dim |-> d]
    ELSE IF val.v >= 0 /\ val.t = "int"
         THEN [err |-> "none", dim |-> [d EXCEPT !.size = val.v]]
         ELSE [err |-> "TypeError", dim |-> d]

DimensionSetSize ==
    /\ \E id \in DOMAIN dimObjs, val \in SizeValues :
         LET r == SizeSetter(dimObjs[id], val) IN
         /\ dimObjs' = [dimObjs EXCEPT ![id] = r.dim]
         /\ op' = [name |-> "DimensionSetSize", id |-> id, val |-> val,
                   before |-> dimObjs[id].size, err |-> r.err]
    /\ UNCHANGED <<varObjs, field, gb, geomCache>>

(***************************************************************************)
(* The Storage capability (ddice.array: Array, numpyArray).  Only shapes   *)
(* matter to the Variable layer.  An index specification has one entry per *)
(* axis (missing trailing entries select all): select-all, an integer      *)
(* (the axis collapses to size 1, as the doctest V[2,1] shows), a slice    *)
(* [a, b) clipped to the axis, or an explicit index list.                  *)
(***************************************************************************)
IdxAll == [k |-> "all", a |-> 0, b |-> 0, l |-> <<>>]

IdxInt(i) == [k |-> "int", a |-> i, b |-> 0, l |-> <<>>]

IdxSlice(a, b) == [k |-> "slice", a |-> a, b |-> b, l |-> <<>>]

IdxList(l) == [k |-> "list", a |-> 0, b |-> 0, l |-> l]

\* The indices of an axis of size n that one entry selects, in order.
RECURSIVE Interval(_, _)
Interval(a, b) == IF a >= b THEN <<>> ELSE <<a>> \o Interval(a + 1, b)

IdxSelect(e, n) ==
    CASE e.k = "all" -> Interval(0, n)
      [] e.k = "int" -> <<e.a>>
      [] e.k = "slice" -> Interval(Min2(e.a, n), Min2(e.b, n))
      [] OTHER -> e.l

PadSpec(spec, rank) == [i \in 1..rank |-> IF i <= Len(spec) THEN spec[i] ELSE IdxAll]

StorageGetShape(shape, spec) ==
    [i \in 1..Len(shape) |-> Len(IdxSelect(PadSpec(spec, Len(shape))[i], shape[i]))]

\* An integer index must lie inside its axis, and there is at most one entry per axis.
StorageIndexOk(shape, spec) ==
    /\ Len(spec) <= Len(shape)
    /\ \A i \in DOMAIN spec : spec[i].k = "int" => spec[i].a < shape[i]

\* storage(shape, dtype): an array cannot have a negative extent.
StorageAllocOk(shape) == \A i \in DOMAIN shape : shape[i] >= 0

\* storage[:] = values: the values are broadcast to the target (V[:] = 42.0).
Broadcastable(src, dst) ==
    /\ Len(src) <= Len(dst)
    /\ \A i \in DOMAIN src : src[i] = 1 \/ src[i] = dst[Len(dst) - Len(src) + i]

(***************************************************************************)
(* Variable.__init__.  `items` is the dimensions argument: Dimension       *)
(* instances (by id), tuples (name, size[, fixed]) or anything else.       *)
(* `data` is None, an Array of some storage class, or a raw ndarray.       *)
(***************************************************************************)
ItemDim(id) == [k |-> "dim", id |-> id, name |-> "", size |-> 0, fixed |-> ""]

ItemTuple(name, size, fixed) == [k |-> "tuple", id |-> 0, name |-> name, size |-> size, fixed |-> fixed]

ItemOther == [k |-> "other", id |-> 0, name |-> "", size |-> 0, fixed |-> ""]

DataNone == [k |-> "None", shape |-> <<>>, cls |-> ""]

DataArray(shape, cls) == [k |-> "Array", shape |-> shape, cls |-> cls]

DataNdarray(shape) == [k |-> "ndarray", shape |-> shape, cls |-> ""]

StorageClasses == {"numpyArray", "otherArray"}

\* Dimension(*d) for a tuple: a 2-tuple leaves fixed at its default, True.
TupleDim(it) == DimensionNew(it.name, it.size, IF it.fixed = "default" THEN "True" ELSE it.fixed)

TuplesBefore(items, i) == Cardinality({j \in 1..i : items[j].k = "tuple"})

\* The loop over `dimensions` raises on the first bad entry.
ItemsErr(items) ==
    IF \E i \in DOMAIN items : items[i].k = "other" \/ (items[i].k = "tuple" /\ TupleDim(items[i]).err # "none")
    THEN "TypeError" ELSE "none"

NewDimsOf(items) ==
    LET idx == {i \in DOMAIN items : items[i].k = "tuple"} IN
    [n \in 1..Cardinality(idx) |->
        TupleDim(items[CHOOSE i \in idx : TuplesBefore(items, i) = n]).dim]

DimIdsOf(heap, items) ==
    [i \in DOMAIN items |->
        IF items[i].k = "dim" THEN items[i].id ELSE Len(heap) + TuplesBefore(items, i)]

ShapeOf(heap, ids) == [i \in DOMAIN ids |-> heap[ids[i]].size]

VariableNew(heap, items, data, storage) ==
    LET heap2 == heap \o NewDimsOf(items)
        ids == DimIdsOf(heap, items)
        decl == ShapeOf(heap2, ids)
        made(shape, cls) == [err |-> "none", heap |-> heap2, decl |-> decl,
                             var |-> [dims |-> ids, shape |-> shape]]
        failed(e) == [err |-> e, heap |-> heap, decl |-> decl,
                      var |-> [dims |-> <<>>, shape |-> <<>>]]
    IN
    IF ItemsErr(items) # "none"
    THEN [err |-> "TypeError", heap |-> heap, decl |-> <<>>,
          var |-> [dims |-> <<>>, shape |-> <<>>]]
    ELSE IF data.k = "Array"
    THEN IF data.shape # decl THEN failed("ShapeMismatch")
         ELSE IF data.cls = storage THEN made(data.shape, data.cls)
         ELSE IF ~StorageAllocOk(decl) THEN failed("ValueError")
         ELSE made(decl, storage)
    ELSE IF data.k = "ndarray"
    THEN IF ~StorageAllocOk(decl) THEN failed("ValueError")
         ELSE IF ~Broadcastable(data.shape, decl) THEN failed("ValueError")
         ELSE made(decl, storage)
    ELSE IF ~StorageAllocOk(decl) THEN failed("ValueError")
         ELSE made(decl, storage)

DimItems == {ItemDim(id) : id \in DOMAIN dimObjs}
              \cup {ItemTuple(n, MaxSize, f) : n \in DimNames, f \in {"default", "notbool"}}
              \cup {ItemOther}

DataShapes == SeqsUpTo(1..MaxSize, MaxRank)

DataValues == {DataNone} \cup {DataNdarray(sh) : sh \in DataShapes}
                \cup {DataArray(sh, "numpyArray") : sh \in DataShapes}

VariableInit ==
    /\ Len(varObjs) < MaxVarObjs
    /\ \E items \in SeqsUpTo(DimItems, MaxRank), data \in DataValues, storage \in StorageClasses :
         LET r == VariableNew(dimObjs, items, data, storage) IN
         /\ dimObjs' = r.heap
         /\ varObjs' = IF r.err = "none" THEN Append(varObjs, r.var) ELSE varObjs
         /\ op' = [name |-> "VariableInit", data |-> data.k,
                   differs |-> (ItemsErr(items) = "none" /\ data.k # "None" /\ data.shape # r.decl),
                   made |-> (r.err = "none"), err |-> r.err]
    /\ UNCHANGED <<field, gb, geomCache>>

(***************************************************************************)
(* Variable.__getitem__: slices the storage, builds one new Dimension per  *)
(* pair of zip(self.dimensions, data.shape) and constructs the result from *)
(* them with the sliced storage as data.                                   *)
(***************************************************************************)
\* __getitem__ that pairs the names with the closing axes of the sliced shape.
ZipDimsReversed(heap, v, shape) ==
    [i \in 1..Min2(Len(v.dims), Len(shape)) |->
        DimensionNew(heap[v.dims[Len(v.dims) + 1 - i]].name, shape[i],
                     IF heap[v.dims[i]].fixed THEN "True" ELSE "False").dim]

ZipDims(heap, v, shape) ==
    [i \in 1..Min2(Len(v.dims), Len(shape)) |->
        DimensionNew(heap[v.dims[i]].name, shape[i],
                     IF heap[v.dims[i]].fixed THEN "True" ELSE "False").dim]

GetItem(heap, v, spec) ==
    LET shape == StorageGetShape(v.shape, spec)
        dims == ZipDims(heap, v, shape)
        heap2 == heap \o dims
        items == [i \in DOMAIN dims |-> ItemDim(Len(heap) + i)]
    IN VariableNew(heap2, items, DataArray(shape, "numpyArray"), "numpyArray")

AxisEntries(n) ==
    {IdxAll} \cup {IdxInt(i) : i \in 0..(n - 1)}
      \cup {IdxSlice(a, b) : a \in 0..(n - 1), b \in 1..n}
      \cup {IdxSlice(0, n + 1)}
      \cup {IdxList(<<n - 1, 0>>) : i \in 0..(n - 1)}

SpecsFor(shape) ==
    UNION {{s \in [1..k -> UNION {AxisEntries(shape[i]) : i \in DOMAIN shape}] :
              \A i \in 1..k : s[i] \in AxisEntries(shape[i])} : k \in 0..Len(shape)}

\* The Variable a call returned, with its Dimension objects inlined.
Returned(r) == [dims |-> [i \in DOMAIN r.var.dims |-> r.heap[r.var.dims[i]]], shape |-> r.var.shape]

\* The caller holds the returned Variable in `op` only: it joins neither heap.
VariableGetItem ==
    /\ \E id \in DOMAIN varObjs :
         /\ StorageAllocOk(varObjs[id].shape)
         /\ \E spec \in SpecsFor(varObjs[id].shape) :
              LET r == GetItem(dimObjs, varObjs[id], spec) IN
              op' = [name |-> "VariableGetItem", id |-> id,
                     sliced |-> StorageGetShape(varObjs[id].shape, spec),
                     full |-> (\A i \in DOMAIN spec : spec[i].k = "all"),
                     result |-> Returned(r), err |-> r.err]
    /\ UNCHANGED <<dimObjs, varObjs, field, gb, geomCache>>

(***************************************************************************)
(* Variable.__setitem__ delegates to the storage: the shape never changes. *)
(***************************************************************************)
VariableSetItem ==
    /\ \E id \in DOMAIN varObjs :
         \E spec \in {<<>>, <<IdxInt(0)>>}, vshape \in DataShapes :
           op' = [name |-> "VariableSetItem",
                  err |-> IF ~StorageIndexOk(varObjs[id].shape, spec) THEN "IndexError"
                          ELSE IF Broadcastable(vshape, StorageGetShape(varObjs[id].shape, spec))
                          THEN "none" ELSE "ValueError"]
    /\ UNCHANGED <<dimObjs, varObjs, field, gb, geomCache>>

(***************************************************************************)
(* The Field layer.  Axes are numbered from 0 as in the code; At reads a   *)
(* sequence at such a number.  An array is held in row-major order.        *)
(*                                                                         *)
(* `field` is the Field under test: the data Variable's shape and name and *)
(* coordinate_variables, a mapping role -> (dims, Variable) whose Variable *)
(* is given by its name, shape and values.  The data value of a cell is    *)
(* DataBase ^ (its row-major position), so that a sum of cells tells which *)
(* cells were added and how often.                                         *)
(***************************************************************************)
MaxT == 4
MaxN == 2
MaxGroups == 2
DataBase == 4

At(seq, k) == seq[k + 1]

RECURSIVE CellsOf(_)
CellsOf(shape) ==
    IF shape = <<>> THEN << <<>> >>
    ELSE LET rest == CellsOf(Tail(shape))
             row(i) == [j \in DOMAIN rest |-> <<i>> \o rest[j]]
             RECURSIVE rows(_)
             rows(i) == IF i >= Head(shape) THEN <<>> ELSE row(i) \o rows(i + 1)
         IN rows(0)

RECURSIVE LinIndex(_, _)
LinIndex(shape, cell) ==
    IF shape = <<>> THEN 0
    ELSE LinIndex(SubSeq(shape, 1, Len(shape) - 1), SubSeq(cell, 1, Len(cell) - 1)) * shape[Len(shape)]
           + cell[Len(cell)]

RECURSIVE SumSeq(_)
SumSeq(q) == IF q = <<>> THEN 0 ELSE Head(q) + SumSeq(Tail(q))

DataAt(f, cell) == DataBase ^ LinIndex(f.shape, cell)

\* A coordinate Variable whose value at position i is 10 * (i + 1).
CoordVar(dims, name, shape) ==
    [dims |-> dims, name |-> name, shape |-> shape,
     vals |-> [i \in DOMAIN CellsOf(shape) |-> 10 * i]]

VarName(role, short) ==
    IF ~short THEN role
    ELSE CASE role = "time" -> "t" [] role = "latitude" -> "lat" [] OTHER -> "lon"

\* A time series: data (time).
MkSeries(T, short) ==
    [shape |-> <<T>>, name |-> "pr",
     coords |-> [r \in {"time"} |-> CoordVar(<<0>>, VarName(r, short), <<T>>)]]

\* Station data: time on axis k, the stations on the other axis.
MkStation(T, N, k, short) ==
    [shape |-> IF k = 0 THEN <<T, N>> ELSE <<N, T>>, name |-> "pr",
     coords |-> [r \in {"time", "latitude", "longitude"} |->
                   IF r = "time" THEN CoordVar(<<k>>, VarName(r, short), <<T>>)
                   ELSE CoordVar(<<1 - k>>, VarName(r, short), <<N>>)]]

\* A grid (y, x) with 1-D latitude(y), longitude(x), or with 2-D latitude(y, x), longitude(y, x).
MkGrid(NY, NX, twoD, short) ==
    [shape |-> <<NY, NX>>, name |-> "pr",
     coords |-> [r \in {"latitude", "longitude"} |->
                   IF twoD THEN CoordVar(<<0, 1>>, VarName(r, short), <<NY, NX>>)
                   ELSE IF r = "latitude" THEN CoordVar(<<0>>, VarName(r, short), <<NY>>)
                   ELSE CoordVar(<<1>>, VarName(r, short), <<NX>>)]]

GroupFields ==
    {MkSeries(T, short) : T \in 1..MaxT, short \in BOOLEAN}
      \cup {MkStation(MaxT, N, k, short) : N \in 1..MaxN, k \in {0, 1}, short \in BOOLEAN}
      \cup {MkGrid(NY, NX, twoD, FALSE) : NY \in 1..MaxN, NX \in 1..MaxN, twoD \in BOOLEAN}

(***************************************************************************)
(* Field.latitudes and Field.geometries: one geometry per cell of the      *)
(* latitude array, which is broadcast to (y, x) when latitude and          *)
(* longitude are 1-D on different axes.  The result is cached.             *)
(***************************************************************************)
LatitudesShape(f) ==
    LET lat == f.coords["latitude"]
        lon == f.coords["longitude"]
    IN IF lat.dims[1] # lon.dims[1] /\ Len(lat.shape) = 1
       THEN <<lat.shape[1], lon.shape[1]>>
       ELSE lat.shape

\* _geometries and _areas while they are still False.  `computed` and
\* `areasComputed` count the computations that ran to their end; id and areasId
\* tell which computation made the array that is held.  What the geometries
\* are is not modelled, only the shape of the array and whether its cells were
\* filled.
GeomNone ==
    [set |-> FALSE, shape |-> <<>>, filled |-> FALSE, id |-> 0, computed |-> 0,
     areas |-> FALSE, areasId |-> 0, areasComputed |-> 0]

MaxComputations == 2

NoGeometry == [shape |-> <<>>, filled |-> FALSE, id |-> 0]

GeometryHeld(cache) == [shape |-> cache.shape, filled |-> cache.filled, id |-> cache.id]

\* field.py:414-472: the computation.  The latitudes and longitudes properties
\* raise KeyError without both coordinates; the bounds of a rank-2 array index
\* row and column 2 of an array of (rows + 1, columns + 1), an IndexError when
\* either is below 2; an array of any other rank than 1 or 2 is left unfilled.
ComputeGeometries(f, cache) ==
    IF ~({"latitude", "longitude"} \subseteq DOMAIN f.coords)
    THEN [err |-> "KeyError", cache |-> cache, value |-> NoGeometry]
    ELSE LET shape == LatitudesShape(f)
         IN IF Len(shape) = 2 /\ (shape[1] < 2 \/ shape[2] < 2)
            THEN [err |-> "IndexError", cache |-> cache, value |-> NoGeometry]
            ELSE LET held == [cache EXCEPT !.set = TRUE, !.shape = shape,
                                           !.filled = (Len(shape) \in {1, 2}),
                                           !.id = cache.computed + 1,
                                           !.computed = cache.computed + 1]
                 IN [err |-> "none", cache |-> held, value |-> GeometryHeld(held)]

\* geometries() without the test of field.py:410-411.
GeometriesUncached(f, cache) == ComputeGeometries(f, cache)

\* field.py:409-472.
Geometries(f, cache) ==
    IF cache.set THEN [err |-> "none", cache |-> cache, value |-> GeometryHeld(cache)]
    ELSE ComputeGeometries(f, cache)

\* field.py:496-514: the area of an unfilled cell (None) has no bounds.
Areas(f, cache) ==
    IF cache.areas THEN [err |-> "none", cache |-> cache, id |-> cache.areasId]
    ELSE LET g == Geometries(f, cache)
         IN IF g.err # "none" THEN [err |-> g.err, cache |-> g.cache, id |-> 0]
            ELSE IF ~g.value.filled THEN [err |-> "AttributeError", cache |-> g.cache, id |-> 0]
            ELSE [err |-> "none", id |-> cache.areasComputed + 1,
                  cache |-> [g.cache EXCEPT !.areas = TRUE, !.areasId = cache.areasComputed + 1,
                                            !.areasComputed = cache.areasComputed + 1]]

FieldGeometries ==
    /\ geomCache.computed < MaxComputations
    /\ LET r == Geometries(field, geomCache)
       IN /\ geomCache' = r.cache
          /\ op' = [name |-> "FieldGeometries", err |-> r.err, value |-> r.value]
    /\ UNCHANGED <<dimObjs, varObjs, field, gb>>

FieldAreas ==
    /\ geomCache.computed < MaxComputations
    /\ geomCache.areasComputed < MaxComputations
    /\ LET r == Areas(field, geomCache)
       IN /\ geomCache' = r.cache
          /\ op' = [name |-> "FieldAreas", err |-> r.err, id |-> r.id]
    /\ UNCHANGED <<dimObjs, varObjs, field, gb>>

(***************************************************************************)
(* Grouping functions are the caller's: one returns an ordered mapping of  *)
(* groups, each a list of indices per dimension of the coordinate array.   *)
(* Here they partition the cells of the coordinate array, in any order.    *)
(***************************************************************************)
Perms(S) == {q \in [1..Cardinality(S) -> S] : \A i, j \in DOMAIN q : q[i] = q[j] => i = j}

\* The segments of q cut after the positions in cuts.
Segments(q, cuts) ==
    LET ends == cuts \cup {Len(q)}
        sorted == CHOOSE e \in [1..Cardinality(ends) -> ends] : \A i, j \in DOMAIN e : i < j => e[i] < e[j]
    IN [g \in DOMAIN sorted |-> SubSeq(q, IF g = 1 THEN 1 ELSE sorted[g - 1] + 1, sorted[g])]

\* A list of cells as one index list per dimension.
PerDimension(cells, rank) == [d \in 1..rank |-> [j \in DOMAIN cells |-> cells[j][d]]]

GroupingResults(shape) ==
    LET cells == Range(CellsOf(shape))
        n == Cardinality(cells)
        lists(segs) == [g \in DOMAIN segs |-> PerDimension(segs[g], Len(shape))]
    IN {lists(Segments(q, cuts)) :
          q \in Perms(cells), cuts \in {c \in SUBSET (1..(n - 1)) : Cardinality(c) < MaxGroups}}

(***************************************************************************)
(* Field.groupby.                                                          *)
(***************************************************************************)
GbNone == [set |-> FALSE, coordinate |-> "", mapping |-> <<>>, groups |-> <<>>, raw |-> <<>>]

\* mapping.index(dim): the first position of dim in mapping, from 0.
IndexOf(mapping, dim) == (CHOOSE i \in DOMAIN mapping : mapping[i] = dim /\ \A j \in 1..(i - 1) : mapping[j] # dim) - 1

\* for dim in mapping: s[dim] = group[mapping.index(dim)]
RECURSIVE Assign(_, _, _, _)
Assign(s, mapping, group, i) ==
    IF i > Len(mapping) THEN s
    ELSE Assign([s EXCEPT ![mapping[i] + 1] = IdxList(At(group, IndexOf(mapping, mapping[i])))],
                mapping, group, i + 1)

\* A list whose last - first + 1 equals its length becomes slice(first, last + 1).
Simplified(e) ==
    IF e.k = "list" /\ e.l[Len(e.l)] - e.l[1] + 1 = Len(e.l)
    THEN IdxSlice(e.l[1], e.l[Len(e.l)] + 1)
    ELSE e

RECURSIVE Simplify(_, _, _)
Simplify(s, mapping, i) ==
    IF i > Len(mapping) THEN s
    ELSE Simplify([s EXCEPT ![mapping[i] + 1] = Simplified(s[mapping[i] + 1])], mapping, i + 1)

\* The loop over the groups; the list s is shared by all iterations.
RECURSIVE GroupLoop(_, _, _, _)
GroupLoop(s, mapping, raw, i) ==
    IF i > Len(raw) THEN <<>>
    ELSE LET s2 == Simplify(Assign(s, mapping, raw[i], 1), mapping, 1)
         IN <<s2>> \o GroupLoop(s2, mapping, raw, i + 1)

\* The coordinate mapping and values groupby resolves for a role; for geometry
\* the values are those of geometries().
GroupbyResolve(f, role, cache) ==
    IF role \in DOMAIN f.coords
    THEN [err |-> "none", mapping |-> f.coords[role].dims, shape |-> f.coords[role].shape,
          cache |-> cache, geom |-> 0]
    ELSE IF role = "geometry"
    THEN LET g == Geometries(f, cache)
         IN IF g.err # "none"
            THEN [err |-> g.err, mapping |-> <<>>, shape |-> <<>>, cache |-> g.cache, geom |-> 0]
            ELSE [err |-> "none", mapping |-> f.coords["latitude"].dims \o f.coords["longitude"].dims,
                  shape |-> g.value.shape, cache |-> g.cache, geom |-> g.value.id]
    ELSE [err |-> "UnknownCoordinate", mapping |-> <<>>, shape |-> <<>>, cache |-> cache, geom |-> 0]

GroupRoles == {"time", "latitude", "geometry", "depth"}

FieldGroupby ==
    /\ geomCache.computed < MaxComputations
    /\ \E role \in GroupRoles :
         LET r == GroupbyResolve(field, role, geomCache) IN
         /\ geomCache' = r.cache
         /\ op' = [name |-> "FieldGroupby", role |-> role, err |-> r.err, geom |-> r.geom]
         /\ IF r.err # "none" THEN gb' = gb
            ELSE \E raw \in GroupingResults(r.shape) :
                   gb' = [set |-> TRUE, coordinate |-> role, mapping |-> r.mapping, raw |-> raw,
                          groups |-> GroupLoop([i \in DOMAIN field.shape |-> IdxAll], r.mapping, raw, 1)]
    /\ UNCHANGED <<dimObjs, varObjs, field>>

(***************************************************************************)
(* Field.apply.                                                            *)
(***************************************************************************)
\* The indices a group's specification selects on every axis of the data.
SelectionOf(f, spec) == [d \in DOMAIN f.shape |-> IdxSelect(spec[d], f.shape[d])]

\* t with v put in at axis k.
Insert(t, k, v) == SubSeq(t, 1, k) \o <<v>> \o SubSeq(t, k + 1, Len(t))

\* t without its axis k.
Remove(t, k) == SubSeq(t, 1, k) \o SubSeq(t, k + 2, Len(t))

\* func(self.variable[group].ndarray(), axis=k) for func = numpy.sum: the
\* selected cells are added along axis k, which disappears.
ReduceSum(f, sel, k) ==
    LET lens == [d \in DOMAIN sel |-> Len(sel[d])]
        rshape == Remove(lens, k)
        cellAt(t, j) == LET pos == Insert(t, k, j) IN [d \in DOMAIN sel |-> At(sel[d], pos[d])]
    IN [shape |-> rshape,
        val |-> [t \in Range(CellsOf(rshape)) |->
                   SumSeq([j \in 1..At(lens, k) |-> DataAt(f, cellAt(t, j - 1))])]]

\* Where a cell of the target reads the broadcast values.
BIndex(rshape, t) == [j \in DOMAIN rshape |-> IF rshape[j] = 1 THEN 0 ELSE t[Len(t) - Len(rshape) + j]]

\* variable[i] = values: i indexes the first axis of the storage.
SetAtFirstAxis(out, i, values) ==
    IF Len(out.shape) = 0 \/ i >= out.shape[1] THEN [err |-> "IndexError", out |-> out]
    ELSE IF ~Broadcastable(values.shape, Tail(out.shape)) THEN [err |-> "ValueError", out |-> out]
    ELSE [err |-> "none",
          out |-> [out EXCEPT !.val = [c \in DOMAIN out.val |->
                     IF c[1] = i THEN values.val[BIndex(values.shape, Tail(c))] ELSE out.val[c]]]]

\* A freshly allocated storage holds no defined value (-1 stands for it).
Uninit == 0 - 1

NewStorage(shape) == [shape |-> shape, val |-> [c \in Range(CellsOf(shape)) |-> Uninit]]

\* The keys of the `variables` dictionary apply builds.
VariablesKeys(f) == {f.name} \cup {f.coords[r].name : r \in DOMAIN f.coords}

\* The last coordinate value of a group: at stop - 1 of a slice, at the last listed index of a list.
LastCoordinate(cv, e) ==
    IF e.k = "slice" THEN At(cv.vals, e.b - 1) ELSE At(cv.vals, e.l[Len(e.l)])

\* The loop over the groups, from group i (counted from 0) on.
RECURSIVE ApplyLoop(_, _, _, _, _, _)
ApplyLoop(f, g, k, i, out, coord) ==
    IF i >= Len(g.groups) THEN [err |-> "none", out |-> out, coord |-> coord]
    ELSE LET group == At(g.groups, i)
             w == SetAtFirstAxis(out, i, ReduceSum(f, SelectionOf(f, group), k))
         IN IF w.err # "none" THEN [err |-> w.err, out |-> w.out, coord |-> coord]
            ELSE IF g.coordinate \notin VariablesKeys(f)
            THEN [err |-> "KeyError", out |-> w.out, coord |-> coord]
            ELSE ApplyLoop(f, g, k, i + 1, w.out,
                           IF f.coords[g.coordinate].name = g.coordinate
                           THEN [coord EXCEPT ![i + 1] = LastCoordinate(f.coords[g.coordinate], At(group, k))]
                           ELSE coord)

NoResult == [err |-> "", mapping |-> <<>>, out |-> NewStorage(<<0>>), coord |-> <<>>]

Apply(f, g) ==
    IF g.coordinate \notin DOMAIN f.coords
    THEN [NoResult EXCEPT !.err = "NameError"]
    ELSE LET mapping == f.coords[g.coordinate].dims IN
         IF Len(mapping) > 1
         THEN [NoResult EXCEPT !.err = "MultiDimensional", !.mapping = mapping]
         ELSE LET k == mapping[1]
                  n == Len(g.groups)
                  r == ApplyLoop(f, g, k, 0, NewStorage([f.shape EXCEPT ![k + 1] = n]),
                                 [i \in 1..n |-> Uninit])
              IN [err |-> r.err, mapping |-> mapping, out |-> r.out, coord |-> r.coord]

FieldApply ==
    /\ gb.set
    /\ LET r == Apply(field, gb) IN
         op' = [name |-> "FieldApply", err |-> r.err, mapping |-> r.mapping,
                out |-> IF r.err = "none" THEN r.out ELSE NoResult.out,
                coord |-> IF r.err = "none" THEN r.coord ELSE <<>>]
    /\ UNCHANGED <<dimObjs, varObjs, field, gb, geomCache>>

(***************************************************************************)
(* Field.subset with keyword arguments.  A criterion is a scalar low or a pair          *)
(* (low, high), written <<low>> or <<low, high>>; kwargs maps keyword      *)
(* names to criteria.  The Fields here have no ancillary variables, so a   *)
(* name is either a coordinate role or is skipped.  The masks of one       *)
(* mapping are or-ed and the mappings here touch disjoint dimensions, so   *)
(* the order in which the dictionaries are walked does not show.           *)
(***************************************************************************)
MaxLat == 3
LatLevels == {10, 20, 30}
Thresholds == {5, 15, 25, 35}

\* A coordinate Variable with the given values, row-major.
CoordWith(dims, name, shape, vals) == [dims |-> dims, name |-> name, shape |-> shape, vals |-> vals]

\* Data (y) with latitude(y).
MkLatLine(vals) ==
    [shape |-> <<Len(vals)>>, name |-> "pr",
     coords |-> [r \in {"latitude"} |-> CoordWith(<<0>>, r, <<Len(vals)>>, vals)]]

\* Data (y, x) with latitude(y, x) as given and longitude(y, x) growing along x.
MkLatGrid(NY, NX, vals) ==
    [shape |-> <<NY, NX>>, name |-> "pr",
     coords |-> [r \in {"latitude", "longitude"} |->
                   IF r = "latitude" THEN CoordWith(<<0, 1>>, r, <<NY, NX>>, vals)
                   ELSE CoordWith(<<0, 1>>, r, <<NY, NX>>,
                                  [i \in 1..(NY * NX) |-> 10 * (((i - 1) % NX) + 1)])]]

SubsetFields ==
    {MkLatLine(vals) : vals \in UNION {[1..n -> LatLevels] : n \in 1..MaxLat}}
      \cup {MkGrid(NY, NX, FALSE, FALSE) : NY \in 1..MaxN, NX \in 1..MaxN}
      \cup {MkLatGrid(MaxN, MaxN, vals) : vals \in [1..(MaxN * MaxN) -> {10, 20}]}

\* A low alone, a pair low < high, and one pair that excludes everything.
Criteria ==
    {<<15>>, <<35>>, <<35, 5>>} \cup {c \in Thresholds \X Thresholds : c[1] < c[2]}

SubsetKwargs ==
    LET choices == [latitude : Criteria \cup {<<>>},
                    longitude : {<<>>, <<15>>, <<5, 35>>},
                    depth : {<<>>, <<15>>}]
        given(c) == {n \in DOMAIN c : c[n] # <<>>}
    IN {[n \in given(c) |-> c[n]] : c \in choices}

\* field.py:321-325: vals < low, or-ed with vals > high when a high is given
\* and the coordinate array has more than one entry along its first axis.
MaskOf(cv, value) ==
    [i \in DOMAIN cv.vals |->
       \/ cv.vals[i] < value[1]
       \/ (cv.shape[1] > 1 /\ Len(value) > 1 /\ cv.vals[i] > value[2])]

\* field.py:297-335: the exclusion mask per dimension-index-tuple.
Mappings(f, kwargs) ==
    LET known == DOMAIN kwargs \cap DOMAIN f.coords
        keys == {f.coords[n].dims : n \in known}
        shapeOf(m) == (CHOOSE n \in known : f.coords[n].dims = m)
    IN [m \in keys |->
          [shape |-> f.coords[shapeOf(m)].shape,
           mask |-> [i \in 1..Len(f.coords[shapeOf(m)].vals) |->
                       \E n \in known : f.coords[n].dims = m /\ MaskOf(f.coords[n], kwargs[n])[i]]]]

\* np.nonzero(~mask): the kept cells in row-major order, one index array per dimension.
Nonzero(mm) ==
    LET cells == CellsOf(mm.shape)
        kept == SelectSeq([i \in DOMAIN cells |-> <<i, cells[i]>>], LAMBDA e : ~mm.mask[e[1]])
    IN PerDimension([j \in DOMAIN kept |-> kept[j][2]], Len(mm.shape))

SeqMin(q) == CHOOSE v \in Range(q) : \A w \in Range(q) : v <= w

SeqMax(q) == CHOOSE v \in Range(q) : \A w \in Range(q) : v >= w

\* The entry with slice(start, stop) for slice(start, stop + 1).
SubsetEntryStopExclusive(old, nz, i) ==
    IF Len(nz) = 1
    THEN IF SeqMax(nz[i]) - SeqMin(nz[i]) + 1 > Len(nz[1]) THEN IdxList(nz[1]) ELSE old
    ELSE IdxSlice(SeqMin(nz[i]), SeqMax(nz[i]))

\* field.py:346-353, where the else belongs to `if len(nonzero) == 1`: an index
\* list for a 1-D mapping whose kept indices have a gap, no assignment for any
\* other 1-D mapping, and a bounding slice per dimension for a higher rank.
SubsetEntry(old, nz, i) ==
    IF Len(nz) = 1
    THEN IF SeqMax(nz[i]) - SeqMin(nz[i]) + 1 > Len(nz[1]) THEN IdxList(nz[1]) ELSE old
    ELSE IdxSlice(SeqMin(nz[i]), SeqMax(nz[i]) + 1)

\* field.py:337-353.
SubsetSpec(f, mappings) ==
    [d \in DOMAIN f.shape |->
       LET old == IdxSlice(0, f.shape[d])
           touching == {m \in DOMAIN mappings : d - 1 \in Range(m)}
       IN IF touching = {} THEN old
          ELSE LET m == CHOOSE x \in touching : TRUE
               IN SubsetEntry(old, Nonzero(mappings[m]), IndexOf(m, d - 1) + 1)]

\* field.py:359-367: the entries of subset on the data dimensions of the coordinate.
CoordSlice(f, cv, subset) ==
    LET on == SelectSeq([d \in DOMAIN f.shape |-> d], LAMBDA d : d - 1 \in Range(cv.dims))
    IN [j \in DOMAIN on |-> subset[on[j]]]

Subset(f, kwargs) ==
    LET mappings == Mappings(f, kwargs)
    IN IF \E m \in DOMAIN mappings : \A i \in DOMAIN mappings[m].mask : mappings[m].mask[i]
       THEN [err |-> "ValueError", subset |-> <<>>, shape |-> <<>>, coords |-> <<>>]
       ELSE LET subset == SubsetSpec(f, mappings)
            IN [err |-> "none", subset |-> subset,
                shape |-> StorageGetShape(f.shape, subset),
                coords |-> [r \in DOMAIN f.coords |->
                              StorageGetShape(f.coords[r].shape, CoordSlice(f, f.coords[r], subset))]]

FieldSubset ==
    /\ \E kwargs \in SubsetKwargs :
         LET r == Subset(field, kwargs)
         IN op' = [name |-> "FieldSubset", kwargs |-> kwargs, err |-> r.err,
                   subset |-> r.subset, shape |-> r.shape, coords |-> r.coords]
    /\ UNCHANGED <<dimObjs, varObjs, field, gb, geomCache>>

(***************************************************************************)
(* Field.map with keyword arguments: the nearest cell.  kwargs maps        *)
(* keyword names to numbers (float() of such a number is the number); the  *)
(* value of _method is never read.  A Python 2 dictionary is walked in an  *)
(* arbitrary order, so the order of the keywords is any permutation.  The  *)
(* Fields here have no ancillary variables.                                *)
(***************************************************************************)
MaxPoints == 2
SqrtScale == 1000
MapLevels == 0..2

\* Data (time, point) with latitude(point), longitude(point) and time(time).
MkPoints(lat, lon) ==
    [shape |-> <<2, Len(lat)>>, name |-> "pr",
     coords |-> [r \in {"time", "latitude", "longitude"} |->
                   CASE r = "time" -> CoordWith(<<0>>, r, <<2>>, <<0, 2>>)
                     [] r = "latitude" -> CoordWith(<<1>>, r, <<Len(lat)>>, lat)
                     [] OTHER -> CoordWith(<<1>>, r, <<Len(lon)>>, lon)]]

\* Data (y, x) with latitude(y, x) as given and longitude(y, x) growing along x.
MkCurvilinear(lat) ==
    [shape |-> <<MaxN, MaxN>>, name |-> "pr",
     coords |-> [r \in {"latitude", "longitude"} |->
                   IF r = "latitude" THEN CoordWith(<<0, 1>>, r, <<MaxN, MaxN>>, lat)
                   ELSE CoordWith(<<0, 1>>, r, <<MaxN, MaxN>>,
                                  [i \in 1..(MaxN * MaxN) |-> 2 * ((i - 1) % MaxN)])]]

\* Data (y, x) with latitude(y) and longitude(x).
MkRectilinear(lat, lon) ==
    [shape |-> <<Len(lat), Len(lon)>>, name |-> "pr",
     coords |-> [r \in {"latitude", "longitude"} |->
                   IF r = "latitude" THEN CoordWith(<<0>>, r, <<Len(lat)>>, lat)
                   ELSE CoordWith(<<1>>, r, <<Len(lon)>>, lon)]]

MapFields ==
    UNION {{MkPoints(lat, lon) : lat \in [1..n -> MapLevels], lon \in [1..n -> {0, 2}]} : n \in 1..MaxPoints}
      \cup {MkCurvilinear(lat) : lat \in [1..(MaxN * MaxN) -> {0, 2}]}
      \cup {MkRectilinear(lat, <<0, 2>>) : lat \in {<<0, 2>>, <<2, 0>>, <<1>>}}

Absent == 0 - 1

MapKwargs ==
    LET choices == [latitude : {Absent, 0, 1, 3}, longitude : {Absent, 0},
                    extra : {"", "_method", "depth", "time"}]
        named(c) == {n \in {"latitude", "longitude"} : c[n] # Absent}
                      \cup (IF c.extra = "" THEN {} ELSE {c.extra})
    IN {[n \in named(c) |-> IF n \in {"latitude", "longitude"} THEN c[n] ELSE 2] : c \in choices}

\* np.sqrt keeps distinct sums of squares of this size distinct and in order;
\* so does the square root here, taken to 1 / SqrtScale and rounded down.
RECURSIVE RootBetween(_, _, _)
RootBetween(n, lo, hi) ==
    IF lo >= hi THEN lo
    ELSE LET mid == (lo + hi + 1) \div 2
         IN IF mid * mid <= n THEN RootBetween(n, mid, hi) ELSE RootBetween(n, lo, mid - 1)

Sqrt(d) == RootBetween(d * SqrtScale * SqrtScale, 0, (d + 1) * SqrtScale)

\* np.argmin: the first position, in row-major order, of the least value.
ArgMin(q) == CHOOSE i \in DOMAIN q : (\A j \in DOMAIN q : q[i] <= q[j]) /\ (\A j \in 1..(i - 1) : q[j] > q[i])

\* field.py:241-251 with `distance =` for `distance +=`: the last keyword alone.
DistanceOverwritten(f, args, kwargs) ==
    LET names == CHOOSE q \in Perms(args) : TRUE
        last == names[Len(names)]
    IN [i \in DOMAIN f.coords[last].vals |-> (f.coords[last].vals[i] - kwargs[last]) ^ 2]

\* field.py:241-251: the squared differences of every keyword of args, accumulated.
Distance(f, args, kwargs) ==
    LET names == CHOOSE q \in Perms(args) : TRUE
    IN [i \in DOMAIN f.coords[names[1]].vals |->
          SumSeq([j \in DOMAIN names |-> (f.coords[names[j]].vals[i] - kwargs[names[j]]) ^ 2])]

\* field.py:217-229: the keyword and the other coordinate keywords on the same dimensions.
Complementary(f, kwargs, arg) ==
    {arg} \cup {n \in DOMAIN f.coords : n \in DOMAIN kwargs /\ n # arg /\ f.coords[n].dims = f.coords[arg].dims}

\* field.py:241-263: the nearest cell for a coordinate keyword and its
\* complementary keywords, written into the slots of the coordinate's dimensions.
Nearest(f, kwargs, arg, result, done) ==
    LET cv == f.coords[arg]
        args == Complementary(f, kwargs, arg)
        distance == Distance(f, args, kwargs)
        rooted == [c \in DOMAIN distance |-> Sqrt(distance[c])]
        index == CellsOf(cv.shape)[ArgMin(rooted)]
        written == [d \in DOMAIN result |->
                      IF d - 1 \in Range(cv.dims)
                      THEN IdxInt(index[IndexOf(cv.dims, d - 1) + 1])
                      ELSE result[d]]
    IN [result |-> written, done |-> done \cup args]

\* One turn of the loop where a keyword that names nothing clears the result.
MapStepUnknownClears(f, kwargs, arg, result, done) ==
    IF arg = "_method" \/ arg \in done THEN [result |-> result, done |-> done]
    ELSE IF arg \in DOMAIN f.coords THEN Nearest(f, kwargs, arg, result, done)
    ELSE [result |-> [d \in DOMAIN result |-> IdxAll], done |-> done]

\* field.py:204-265: one turn of the loop, for the keyword arg.
MapStep(f, kwargs, arg, result, done) ==
    IF arg = "_method" \/ arg \in done THEN [result |-> result, done |-> done]
    ELSE IF arg \in DOMAIN f.coords THEN Nearest(f, kwargs, arg, result, done)
    ELSE [result |-> result, done |-> done]

\* field.py:204-265, from the i-th keyword of order on.
RECURSIVE MapLoop(_, _, _, _, _, _)
MapLoop(f, kwargs, order, i, result, done) ==
    IF i > Len(order) THEN result
    ELSE LET step == MapStep(f, kwargs, order[i], result, done)
         IN MapLoop(f, kwargs, order, i + 1, step.result, step.done)

Map(f, kwargs, order) == MapLoop(f, kwargs, order, 1, [d \in DOMAIN f.shape |-> IdxAll], {})

FieldMap ==
    /\ \E kwargs \in MapKwargs : \E order \in Perms(DOMAIN kwargs) :
         op' = [name |-> "FieldMap", kwargs |-> kwargs, result |-> Map(field, kwargs, order)]
    /\ UNCHANGED <<dimObjs, varObjs, field, gb, geomCache>>

InitVar ==
    /\ dimObjs = <<>>
    /\ varObjs = <<>>
    /\ field = NoField
    /\ gb = GbNone
    /\ geomCache = GeomNone
    /\ op = NoOp

NextVar ==
    \/ DimensionInit
    \/ DimensionSetSize
    \/ VariableInit
    \/ VariableGetItem
    \/ VariableSetItem

SpecVar == InitVar /\ [][NextVar]_vars

InitGroup ==
    /\ dimObjs = <<>>
    /\ varObjs = <<>>
    /\ field \in GroupFields
    /\ gb = GbNone
    /\ geomCache = GeomNone
    /\ op = NoOp

NextGroup ==
    \/ FieldGroupby
    \/ FieldApply

SpecGroup == InitGroup /\ [][NextGroup]_vars

\* Data (z, y, x) with latitude(z, y, x) and longitude(z, y, x).
MkVolume(NX) ==
    [shape |-> <<1, 1, NX>>, name |-> "pr",
     coords |-> [r \in {"latitude", "longitude"} |-> CoordVar(<<0, 1, 2>>, r, <<1, 1, NX>>)]]

GeomFields ==
    {MkSeries(1, FALSE), MkVolume(MaxN), MkGrid(MaxN, MaxN, TRUE, FALSE), MkStation(1, MaxN, 0, FALSE)}
      \cup {MkGrid(NY, NX, FALSE, FALSE) : NY \in 1..MaxN, NX \in 1..MaxN}

InitGeom ==
    /\ dimObjs = <<>>
    /\ varObjs = <<>>
    /\ field \in GeomFields
    /\ gb = GbNone
    /\ geomCache = GeomNone
    /\ op = NoOp

NextGeom ==
    \/ FieldGeometries
    \/ FieldAreas
    \/ FieldGroupby

SpecGeom == InitGeom /\ [][NextGeom]_vars

InitSubset ==
    /\ dimObjs = <<>>
    /\ varObjs = <<>>
    /\ field \in SubsetFields
    /\ gb = GbNone
    /\ geomCache = GeomNone
    /\ op = NoOp

NextSubset == FieldSubset

SpecSubset == InitSubset /\ [][NextSubset]_vars

InitMap ==
    /\ dimObjs = <<>>
    /\ varObjs = <<>>
    /\ field \in MapFields
    /\ gb = GbNone
    /\ geomCache = GeomNone
    /\ op = NoOp

NextMap == FieldMap

SpecMap == InitMap /\ [][NextMap]_vars

(***************************************************************************)
(* Claims about the Dimension / Variable layer (checked under SpecVar).    *)
(***************************************************************************)
NonInteger(val) == val.t = "float" /\ val.v % 2 # 0

\* C5: after any sequence of construction, get, set and set_size, every
\* Variable's storage shape equals the tuple of its Dimensions' sizes.
C5_StorageShapeIsDimensionSizes ==
    /\ \A id \in DOMAIN varObjs : varObjs[id].shape = ShapeOf(dimObjs, varObjs[id].dims)
    /\ (op.name = "VariableGetItem" /\ op.err = "none") =>
          op.result.shape = [i \in DOMAIN op.result.dims |-> op.result.dims[i].size]

\* C6: v.get(s) succeeds for every admissible s; the result's shape is the
\* shape of v's storage sliced by s, its i-th Dimension has that size and the
\* name and fixed-ness of v's i-th Dimension; a full slice keeps v's shape.
C6_GetItemShape ==
    op.name = "VariableGetItem" =>
      LET v == varObjs[op.id] IN
      /\ op.err = "none"
      /\ op.result.shape = op.sliced
      /\ Len(op.result.dims) = Len(v.dims)
      /\ \A i \in DOMAIN v.dims :
            /\ op.result.dims[i].size = op.sliced[i]
            /\ op.result.dims[i].name = dimObjs[v.dims[i]].name
            /\ op.result.dims[i].fixed = dimObjs[v.dims[i]].fixed
      /\ op.full => op.result.shape = v.shape

\* C6 witness: a rank-2 Variable with two differently named axes was sliced
\* to a smaller shape.
C6_Witness ==
    /\ op.name = "VariableGetItem"
    /\ op.err = "none"
    /\ Len(op.sliced) = 2
    /\ op.sliced # varObjs[op.id].shape
    /\ op.result.dims[1].name # op.result.dims[2].name
    /\ op.result.dims[1].size # op.result.dims[2].size

C10_DataShapeMismatchFails ==
    (op.name = "VariableInit" /\ op.differs) => (op.err # "none" /\ ~op.made)

(***************************************************************************)
(* Claims about groupby and apply (checked under SpecGroup).               *)
(***************************************************************************)
\* The role of the GroupBy at hand is a coordinate spanning one data dimension.
SingleAxisRole ==
    /\ gb.coordinate \in DOMAIN field.coords
    /\ Len(field.coords[gb.coordinate].dims) = 1

GroupedAxis == field.coords[gb.coordinate].dims[1]

\* The sum, along axis k, of the data cells that group i selects, at output cell c.
ExpectedSum(c, k) ==
    LET picked == IdxSelect(At(At(gb.groups, At(c, k)), k), At(field.shape, k))
    IN SumSeq([j \in DOMAIN picked |-> DataAt(field, [c EXCEPT ![k + 1] = picked[j]])])

\* C1: for a coordinate on one data axis k (any axis), apply returns a Variable
\* shaped like the source with axis k of size the number of groups, whose
\* entries at index i along axis k are reduceFn(data of group i, axis=k).
C1_ApplyReducesAlongGroupedAxis ==
    (op.name = "FieldApply" /\ SingleAxisRole /\ op.err # "KeyError") =>
      /\ op.err = "none"
      /\ op.out.shape = [field.shape EXCEPT ![GroupedAxis + 1] = Len(gb.groups)]
      /\ \A c \in DOMAIN op.out.val : op.out.val[c] = ExpectedSum(c, GroupedAxis)

\* C2: after groupby then apply, the grouped coordinate's output value at i is
\* the coordinate value at the last index of group i, whatever the name of the
\* coordinate Variable.
C2_LastCoordinateOfGroup ==
    (op.name = "FieldApply" /\ SingleAxisRole /\ op.err \notin {"IndexError", "ValueError"}) =>
      /\ op.err = "none"
      /\ Len(op.coord) = Len(gb.groups)
      /\ \A i \in DOMAIN gb.groups :
           LET picked == IdxSelect(At(gb.groups[i], GroupedAxis), At(field.shape, GroupedAxis))
           IN op.coord[i] = At(field.coords[gb.coordinate].vals, picked[Len(picked)])

\* C7: every group's specification has one entry per data dimension, select-all
\* on the dimensions the coordinate does not touch, and on a touched dimension
\* the indices the grouping function returned for that group.
C7_GroupSpecifications ==
    gb.set =>
      \A g \in DOMAIN gb.groups :
        /\ Len(gb.groups[g]) = Len(field.shape)
        /\ \A d \in 0..(Len(field.shape) - 1) :
             IF d \in Range(gb.mapping)
             THEN Range(IdxSelect(At(gb.groups[g], d), At(field.shape, d)))
                    = Range(At(gb.raw[g], IndexOf(gb.mapping, d)))
             ELSE At(gb.groups[g], d) = IdxAll

\* C8: apply resolves the dimension-index-tuple groupby resolved for the role,
\* fails with the multi-dimensional error when it spans more than one data
\* dimension, and never rejects the role as unknown.
C8_ApplyResolvesGroupbyMapping ==
    op.name = "FieldApply" =>
      /\ op.err \notin {"NameError", "UnknownCoordinate"}
      /\ op.mapping = gb.mapping
      /\ Cardinality(Range(gb.mapping)) > 1 => op.err = "MultiDimensional"

(***************************************************************************)
(* Claims about subset (checked under SpecSubset).                         *)
(***************************************************************************)
\* The indices of the 1-D coordinate cv that the pair value does not exclude.
KeptBy(cv, value) == {i \in 0..(cv.shape[1] - 1) : ~(At(cv.vals, i) < value[1] \/ At(cv.vals, i) > value[2])}

IsRun(K) == K # {} /\ \A i \in K, j \in K : \A m \in i..j : m \in K

\* C3: a (low, high) criterion on a coordinate spanning one data dimension,
\* whose non-excluded indices form one contiguous run, slices the data along
\* that dimension to exactly [min, max+1) of those indices, as a slice and not
\* as an index list.
C3_ContiguousRunSlices ==
    (/\ op.name = "FieldSubset"
     /\ "latitude" \in DOMAIN op.kwargs
     /\ Len(op.kwargs["latitude"]) = 2
     /\ Len(field.coords["latitude"].dims) = 1
     /\ IsRun(KeptBy(field.coords["latitude"], op.kwargs["latitude"]))) =>
      LET cv == field.coords["latitude"]
          K == KeptBy(cv, op.kwargs["latitude"])
          lo == CHOOSE i \in K : \A j \in K : i <= j
          hi == CHOOSE i \in K : \A j \in K : i >= j
          d == cv.dims[1] + 1
      IN /\ op.err = "none"
         /\ op.subset[d].k = "slice"
         /\ IdxSelect(op.subset[d], field.shape[d]) = Interval(lo, hi + 1)
         /\ op.shape[d] = hi - lo + 1

(***************************************************************************)
(* Claims about map (checked under SpecMap).                               *)
(***************************************************************************)
\* The coordinate keywords of the last map call.
Recognized == DOMAIN op.kwargs \cap DOMAIN field.coords

\* The squared difference, at cell c of the coordinates on dims, between the
\* coordinate n and the value supplied for it; 0 when n is not such a keyword.
SquaredDifference(n, dims, c) ==
    IF n \in Recognized /\ field.coords[n].dims = dims
    THEN (At(field.coords[n].vals, LinIndex(field.coords[n].shape, c)) - op.kwargs[n]) ^ 2
    ELSE 0

Cost(dims, c) ==
    SquaredDifference("latitude", dims, c) + SquaredDifference("longitude", dims, c)
      + SquaredDifference("time", dims, c)

\* C4: map with numeric coordinate keywords sharing a dimension-index-tuple
\* returns, in the data dimensions of that tuple, the index of the cell that
\* minimises the sum over those keywords of the squared differences; _method
\* adds nothing to the distance and every other data dimension is select-all.
C4_MapNearestCell ==
    op.name = "FieldMap" =>
      /\ \A a \in Recognized :
           LET cv == field.coords[a]
               cell == [j \in DOMAIN cv.dims |-> At(op.result, cv.dims[j]).a]
           IN /\ \A j \in DOMAIN cv.dims : At(op.result, cv.dims[j]).k = "int"
              /\ cell \in Range(CellsOf(cv.shape))
              /\ \A c \in Range(CellsOf(cv.shape)) : Cost(cv.dims, cell) <= Cost(cv.dims, c)
      /\ \A d \in DOMAIN field.shape :
           (\A a \in Recognized : d - 1 \notin Range(field.coords[a].dims)) => op.result[d] = IdxAll

\* A map call with latitude, longitude and _method on a (y, x) grid of 2-D
\* coordinates that resolves to cell (1, 0), where latitude alone is nearest at
\* (0, 1) and longitude alone at (0, 0).
C4_Witness ==
    /\ op.name = "FieldMap"
    /\ DOMAIN op.kwargs = {"latitude", "longitude", "_method"}
    /\ field.coords["latitude"].dims = <<0, 1>>
    /\ field.coords["latitude"].vals = <<0, 2, 2, 2>>
    /\ op.kwargs["latitude"] = 3
    /\ op.kwargs["longitude"] = 0
    /\ op.result = <<IdxInt(1), IdxInt(0)>>

(***************************************************************************)
(* Further claims about Dimension (checked under SpecVar).                 *)
(***************************************************************************)
\* C11: creating a Dimension fails if fixed is not a boolean or if size is
\* negative, and no Dimension with a negative size exists after any sequence
\* of create and set_size operations.
C11_NoNegativeDimension ==
    /\ (op.name = "DimensionInit" /\ (~IsBool(op.fixed) \/ op.size < 0)) => op.err # "none"
    /\ \A id \in DOMAIN dimObjs : dimObjs[id].size >= 0

(***************************************************************************)
(* Claims about geometries and areas (checked under SpecGeom).             *)
(***************************************************************************)
\* The Field has latitude and longitude arrays of a rank other than 1 or 2.
OtherRank ==
    /\ {"latitude", "longitude"} \subseteq DOMAIN field.coords
    /\ Len(LatitudesShape(field)) \notin {1, 2}

\* C12: geometries() fails with the unsupported-rank error whenever the
\* latitude/longitude arrays have a rank other than 1 or 2, and neither returns
\* nor caches a result for such a Field.
C12_UnsupportedRankFails ==
    OtherRank =>
      /\ ~geomCache.set
      /\ op.name = "FieldGeometries" => op.err # "none"

\* The Field has latitude and longitude arrays of rank 1 or 2.
RankOneOrTwo ==
    /\ {"latitude", "longitude"} \subseteq DOMAIN field.coords
    /\ Len(LatitudesShape(field)) \in {1, 2}

\* Every call that returned used the array of the first computation.
FirstComputationServed ==
    /\ geomCache.computed <= 1
    /\ geomCache.areasComputed <= 1
    /\ (op.name = "FieldGeometries" /\ op.err = "none") =>
         (op.value.id = 1 /\ op.value = GeometryHeld(geomCache))
    /\ (op.name = "FieldAreas" /\ op.err = "none") => (op.id = 1 /\ geomCache.areasId = 1)
    /\ (op.name = "FieldGroupby" /\ op.role = "geometry" /\ op.err = "none") =>
         (op.geom = 1 /\ geomCache.id = 1)

\* A step keeps what the caches hold.
CachesKept ==
    /\ geomCache.set => (geomCache'.set /\ GeometryHeld(geomCache') = GeometryHeld(geomCache))
    /\ geomCache.areas => (geomCache'.areas /\ geomCache'.areasId = geomCache.areasId)

\* C16: for a Field with rank-1 or rank-2 coordinates, over any sequence of
\* geometries(), areas() and groupby('geometry') calls the geometry array and
\* the area array are each computed at most once, every later call returns the
\* identical cached value, and the caches are never reset.
C16_ComputedAtMostOnce ==
    /\ [](RankOneOrTwo => FirstComputationServed)
    /\ [][RankOneOrTwo => CachesKept]_vars

\* geometries() answered from a cache that an earlier groupby('geometry')
\* filled and an areas() call in between went through.
C16_Witness ==
    /\ RankOneOrTwo
    /\ Len(LatitudesShape(field)) = 2
    /\ op.name = "FieldGeometries"
    /\ op.err = "none"
    /\ op.value.id = 1
    /\ geomCache.areas
    /\ gb.set
    /\ gb.coordinate = "geometry"

(***************************************************************************)
(* Further claims about groupby (checked under SpecGroup).                 *)
(***************************************************************************)
\* The list is a contiguous, monotonically increasing run.
IsIncreasingRun(l) == \A j \in 1..(Len(l) - 1) : l[j + 1] = l[j] + 1

\* C15: groupby replaces a group's index list along a touched dimension by a
\* slice only when the list is a contiguous monotonically increasing run, so
\* the specification stored for every group selects the same indices, in the
\* same order, as the list the grouping function returned for that dimension.
C15_CollapseOnlyRuns ==
    gb.set =>
      \A g \in DOMAIN gb.groups : \A d \in Range(gb.mapping) :
        LET returned == At(gb.raw[g], IndexOf(gb.mapping, d))
            stored == At(gb.groups[g], d)
        IN /\ stored.k = "slice" => IsIncreasingRun(returned)
           /\ IdxSelect(stored, At(field.shape, d)) = returned

(***************************************************************************)
(* Further claims about map (checked under SpecMap).                       *)
(***************************************************************************)
\* The keywords of the last map call that name a coordinate, with their values.
RecognizedKwargs == [n \in Recognized |-> op.kwargs[n]]

\* C13: map never fails on an unrecognized keyword: a keyword that names no
\* coordinate or ancillary variable, and _method, is skipped without changing
\* the result, which has one entry per data dimension and is all select-all
\* when no keyword is recognized.
C13_UnknownKeywordsSkipped ==
    op.name = "FieldMap" =>
      /\ Len(op.result) = Len(field.shape)
      /\ Recognized = {} => \A d \in DOMAIN op.result : op.result[d] = IdxAll
      /\ \E order \in Perms(Recognized) : op.result = Map(field, RecognizedKwargs, order)

\* A map call with latitude and an unknown keyword that resolved an index.
C13_Witness ==
    /\ op.name = "FieldMap"
    /\ DOMAIN op.kwargs = {"latitude", "depth"}
    /\ \E d \in DOMAIN op.result : op.result[d].k = "int"

(***************************************************************************)
(* Further claims about subset (checked under SpecSubset).                 *)
(***************************************************************************)
\* The criterion given for the coordinate n is a pair that contains every value of n.
ContainsAll(n) ==
    /\ Len(op.kwargs[n]) = 2
    /\ \A i \in DOMAIN field.coords[n].vals :
         op.kwargs[n][1] <= field.coords[n].vals[i] /\ field.coords[n].vals[i] <= op.kwargs[n][2]

====
